---- MODULE Spec2Model ----
(***************************************************************************)
(* The event-driven redraw loop of simpler-conrod-example (src/main.rs).   *)
(*                                                                         *)
(* main() builds the window, the App (conrod Ui, renderer, image map,      *)
(* widget ids) and the font, then hands a closure to                       *)
(* glutin_glue::EventLoop::run_loop.  The closure is modelled from         *)
(* src/main.rs.  The module glutin_glue (mod glutin_glue, main.rs:9) is    *)
(* not among the sources; the loop that calls the closure is modelled from *)
(* the specification's section 4.4.  The conrod, glium and glutin crates   *)
(* are external: each call into them is modelled at its call site by the   *)
(* library's behaviour (conrod::Ui keeps a redraw counter that             *)
(* needs_redraw() sets to SAFE_REDRAW_COUNT and each draw() decrements).   *)
(***************************************************************************)
EXTENDS Naturals, Sequences, FiniteSets

VARIABLES
    pc,         \* where main() is: an initialization step, "running" (inside
                \* run_loop), "returned" (run_loop returned) or "aborted"
    failure,    \* the expect() that panicked, "none" while none has
    ui,         \* app.ui, the conrod Ui
    ids,        \* app.ids
    renderer,   \* whether app.renderer is built
    image_map,  \* app.image_map
    control,    \* the loop control handle the closure is given
    queue,      \* platform events produced and not yet delivered
    produced,   \* every platform event produced so far, in order
    delivered,  \* every platform event delivered to the closure, in order
    idle,       \* timer/idle UpdateUi events fired so far
    last,       \* the last invocation of the closure: its event and its calls
    hist        \* history of the run

vars == <<pc, failure, ui, ids, renderer, image_map, control, queue, produced,
          delivered, idle, last, hist>>

(* ---------------------------------------------------------------- bounds *)

\* Platform events the windowing system produces in one run.
MaxEvents == 3

\* Timer/idle UpdateUi events the loop glue fires in one run.
MaxIdle == 3

(* -------------------------------------------------------- platform events *)

\* Classes of glutin::Event, one per way convert_event and the closure's
\* match treat an event:
\*   Escape   WindowEvent::KeyboardInput with virtual_keycode Some(Escape)
\*   Key      any other WindowEvent::KeyboardInput
\*   Closed   WindowEvent::Closed
\*   Refresh  WindowEvent::Refresh
\*   Resized  WindowEvent::Resized(w, h)
\*   Moved    WindowEvent::Moved(x, y) (a window event conrod does not take)
\*   Awakened Event::Awakened
\*   Device   Event::DeviceEvent
EventKinds ==
    {"Escape", "Key", "Closed", "Refresh", "Resized", "Moved", "Awakened", "Device"}

\* glutin::Event::WindowEvent { .. } (main.rs:108).
IsWindowEvent(e) == e \in {"Escape", "Key", "Closed", "Refresh", "Resized", "Moved"}

\* conrod::backend::winit::convert_event (main.rs:100-101): the conrod input
\* an event translates to, "None" when it translates to nothing.
ConvertEvent(e) ==
    CASE e \in {"Escape", "Key"} -> "Press"
      [] e = "Resized" -> "Resize"
      [] e = "Refresh" -> "Redraw"
      [] OTHER -> "None"

\* A mutant of IsExitSignal: the window-close arm is missing.
IsExitSignal_NoClosed(e) == e = "Escape"

\* main.rs:111-119: Escape key input or WindowEvent::Closed.
IsExitSignal(e) == IsWindowEvent(e) /\ e \in {"Escape", "Closed"}

\* A mutant of IsRedrawSignal: the catch-all arm of the window events asks
\* for a redraw too.
IsRedrawSignal_AnyWindowEvent(e) == IsWindowEvent(e) \/ e = "Awakened"

\* main.rs:121 (WindowEvent::Refresh | WindowEvent::Resized) and main.rs:130
\* (Event::Awakened): the arms that call needs_redraw() and needs_update().
IsRedrawSignal(e) ==
    \/ IsWindowEvent(e) /\ e \in {"Refresh", "Resized"}
    \/ e = "Awakened"

(* ------------------------------------------------------------- conrod Ui *)

\* conrod::ui::SAFE_REDRAW_COUNT: the frames conrod redraws after a change.
SAFE_REDRAW_COUNT == 3

\* The Ui before UiBuilder::build (no App yet).
NoUi == [redraw_count |-> 0, widgets |-> {}, fonts |-> 0, nodes |-> 0,
         pending_input |-> FALSE]

\* conrod::UiBuilder::new(dim).build() (main.rs:43): the widget graph holds
\* the window node, no widget is set, and the first frames are to be drawn.
UiNew == [redraw_count |-> SAFE_REDRAW_COUNT, widgets |-> {}, fonts |-> 0,
          nodes |-> 1, pending_input |-> FALSE]

\* A mutant of NeedsRedraw: the request is dropped.
NeedsRedraw_Dropped(u) == u

\* conrod::Ui::needs_redraw (main.rs:122, main.rs:131).
NeedsRedraw(u) == [u EXCEPT !.redraw_count = SAFE_REDRAW_COUNT]

\* conrod::Ui::handle_event (main.rs:103): the input is queued for the
\* widgets; a Resize or Redraw input also asks for a redraw.
UiHandleEvent(u, input) ==
    LET v == [u EXCEPT !.pending_input = TRUE]
    IN  IF input \in {"Resize", "Redraw"} THEN NeedsRedraw(v) ELSE v

\* conrod::Ui::has_changed, as draw_if_changed reads it (main.rs:142).
HasChanged(u) == u.redraw_count > 0

\* conrod::Ui::draw_if_changed (main.rs:142): primitives while the redraw
\* counter is positive, and each draw takes one from the counter.
DrawIfChanged(u) ==
    IF HasChanged(u)
    THEN [ui |-> [u EXCEPT !.redraw_count = @ - 1], primitives |-> TRUE]
    ELSE [ui |-> u, primitives |-> FALSE]

(* ------------------------------------------------------------ widget ids *)

NoIds == [root |-> 0, label |-> 0]

\* Ids::new (main.rs:193-198): two calls of gen.next(), each adding a node
\* to the widget graph and returning its index.
IdsNew(u) ==
    [ids |-> [root |-> u.nodes, label |-> u.nodes + 1],
     ui |-> [u EXCEPT !.nodes = @ + 2]]

\* A mutant of CreateUi: the label's id is taken from the generator in
\* every frame instead of from app.ids.
CreateUi_FreshLabel(u, i) ==
    LET updated == {i.root, u.nodes}
        v == [u EXCEPT !.widgets = updated, !.pending_input = FALSE,
                       !.nodes = @ + 1]
    IN  [ui |-> NeedsRedraw(v), used |-> updated]

\* create_ui (main.rs:161-174): set_widgets(), Canvas set at ids.root, Text
\* "hello" set at ids.label, and the UiCell dropped at the end: a redraw is
\* asked for when the set of widgets differs from the previous frame's, and
\* the queued input is cleared.  The first set of the Canvas (main.rs:165-168)
\* builds its state with Canvas::init_state, which takes one id (its title
\* bar's) from the Ui's generator; a widget already in the graph keeps its
\* state, and Text::init_state takes no id.
CreateUi(u, i) ==
    LET updated == {i.root, i.label}
        canvas_new == i.root \notin u.widgets
        v == [u EXCEPT !.widgets = updated, !.pending_input = FALSE,
                       !.nodes = IF canvas_new THEN @ + 1 ELSE @]
    IN  [ui |-> IF updated # u.widgets THEN NeedsRedraw(v) ELSE v,
         used |-> updated]

(* ---------------------------------------------------- loop control handle *)

\* glutin_glue's loop control handle before the loop runs.
NewControl == [should_update_ui |-> FALSE, should_exit |-> FALSE]

\* control.needs_update() (main.rs:104, 123, 132).
NeedsUpdate(c) == [c EXCEPT !.should_update_ui = TRUE]

\* control.exit() (main.rs:119).
Exit(c) == [c EXCEPT !.should_exit = TRUE]

\* The glue takes the update request when it delivers UpdateUi.
ClearUpdate(c) == [c EXCEPT !.should_update_ui = FALSE]

\* A mutant of NextPlatformEvent: the newest pending event is taken.
NextPlatformEvent_Newest(q) == Len(q)

\* The glue delivers platform events in the order produced: the position in
\* the pending queue of the event delivered next.
NextPlatformEvent(q) == 1

\* The pending queue q without its k-th event.
Without(q, k) == [j \in 1..(Len(q) - 1) |-> IF j < k THEN q[j] ELSE q[j + 1]]

\* A mutant of LoopAfter: a standing update request is served before the
\* exit request is read.
LoopAfter_UpdateFirst(c) ==
    IF c.should_exit /\ ~c.should_update_ui THEN "returned" ELSE "running"

\* The glue reads the handle after each handler invocation: run_loop
\* returns once exit() was called.
LoopAfter(c) == IF c.should_exit THEN "returned" ELSE "running"

(* ------------------------------------------------------------ the closure *)

\* A mutant of OnGlutin: the arm for a translated event does not ask for an
\* update.
OnGlutin_NoUpdateOnInput(u, c, e) ==
    LET conv == ConvertEvent(e)
        u1 == IF conv # "None" THEN UiHandleEvent(u, conv) ELSE u
    IN  CASE IsExitSignal(e) ->
               [ui |-> u1, control |-> Exit(c), ingested |-> conv # "None",
                needs_update |-> 0, exit |-> TRUE, needs_redraw |-> FALSE]
          [] IsRedrawSignal(e) /\ ~IsExitSignal(e) ->
               [ui |-> NeedsRedraw(u1), control |-> NeedsUpdate(c),
                ingested |-> conv # "None",
                needs_update |-> 1, exit |-> FALSE, needs_redraw |-> TRUE]
          [] OTHER ->
               [ui |-> u1, control |-> c, ingested |-> conv # "None",
                needs_update |-> 0, exit |-> FALSE, needs_redraw |-> FALSE]

\* The closure's arm for Event::Glutin(event) (main.rs:98-136): what it makes
\* of the Ui and of the control handle, and the calls it made.
OnGlutin(u, c, e) ==
    LET conv == ConvertEvent(e)
        took == conv # "None"
        \* main.rs:100-105
        u1 == IF took THEN UiHandleEvent(u, conv) ELSE u
        c1 == IF took THEN NeedsUpdate(c) ELSE c
        n1 == IF took THEN 1 ELSE 0
    IN  CASE IsExitSignal(e) ->
               \* main.rs:111-119
               [ui |-> u1, control |-> Exit(c1), ingested |-> took,
                needs_update |-> n1, exit |-> TRUE, needs_redraw |-> FALSE]
          [] IsRedrawSignal(e) /\ ~IsExitSignal(e) ->
               \* main.rs:121-124, main.rs:130-133
               [ui |-> NeedsRedraw(u1), control |-> NeedsUpdate(c1),
                ingested |-> took,
                needs_update |-> n1 + 1, exit |-> FALSE, needs_redraw |-> TRUE]
          [] OTHER ->
               \* main.rs:125, main.rs:134
               [ui |-> u1, control |-> c1, ingested |-> took,
                needs_update |-> n1, exit |-> FALSE, needs_redraw |-> FALSE]

\* How a submitted frame ends: drawn and presented, renderer.draw() failed,
\* or target.finish() failed.
FrameOutcomes == {"ok", "draw_err", "finish_err"}

\* A mutant of ShouldRender: the frame is submitted whether or not
\* draw_if_changed returned primitives.
ShouldRender_Always(primitives) == TRUE

\* A mutant of ShouldRender: the test is inverted.
ShouldRender_Inverted(primitives) == ~primitives

\* main.rs:142: if let Some(primitives) = app.ui.draw_if_changed().
ShouldRender(primitives) == primitives

\* main.rs:143-153: the calls made on the display and the renderer for one
\* frame; a failed draw() panics before finish() is called.
RenderFrame(outcome) ==
    IF outcome = "draw_err"
    THEN <<"acquire", "fill", "draw">>
    ELSE <<"acquire", "fill", "draw", "finish">>

\* A mutant of FrameFailure: the results of draw() and finish() are dropped
\* instead of unwrapped.
FrameFailure_Ignored(outcome) == "none"

\* main.rs:147-153: the two expect() calls of a frame.
FrameFailure(outcome) ==
    CASE outcome = "draw_err" -> "draw"
      [] outcome = "finish_err" -> "present"
      [] OTHER -> "none"

\* A mutant of UpdateUiControl: the arm asks for another update.
UpdateUiControl_Rearm(c) == NeedsUpdate(c)

\* A mutant of UpdateUiControl: the arm asks the loop to exit.
UpdateUiControl_Exit(c) == Exit(c)

\* The closure's arm for Event::UpdateUi (main.rs:139-155) does not touch
\* the control handle.
UpdateUiControl(c) == c

\* The closure's arm for Event::UpdateUi (main.rs:139-155): create_ui, then
\* draw_if_changed, then the frame when there are primitives.
OnUpdateUi(u, i, c, outcome) ==
    LET built == CreateUi(u, i)
        drawn == DrawIfChanged(built.ui)
        render == ShouldRender(drawn.primitives)
    IN  [ui |-> drawn.ui, control |-> UpdateUiControl(c),
         used |-> built.used, primitives |-> drawn.primitives,
         gpu |-> IF render THEN RenderFrame(outcome) ELSE <<>>,
         failure |-> IF render THEN FrameFailure(outcome) ELSE "none"]

(* ------------------------------------------------------------------ state *)

NoCall == [ev |-> "none", cause |-> "none", needs_update |-> 0,
           exit |-> FALSE, needs_redraw |-> FALSE, ingested |-> FALSE,
           primitives |-> FALSE, gpu |-> <<>>, used |-> {},
           quiet_run |-> 0, after_force |-> FALSE, from_rest |-> FALSE,
           fault |-> "ok", fonts |-> 0, ui_same |-> TRUE,
           control_same |-> TRUE]

NoHist == [entered |-> FALSE, dispatched |-> 0, exit_seen |-> FALSE,
           after_exit |-> 0, after_failure |-> 0, req_updates |-> 0,
           requests |-> 0, req_delivered |-> 0, force_pending |-> FALSE,
           force_from_rest |-> FALSE, platform_calls |-> 0,
           quiet_run |-> 0, owed |-> FALSE, ids_at_new |-> NoIds,
           nodes_at_new |-> 0]

\* The process starts in main() with nothing built (main.rs:91-92).
Init ==
    /\ pc = "create_display"
    /\ failure = "none"
    /\ ui = NoUi
    /\ ids = NoIds
    /\ renderer = FALSE
    /\ image_map = {}
    /\ control = NewControl
    /\ queue = <<>>
    /\ produced = <<>>
    /\ delivered = <<>>
    /\ idle = 0
    /\ last = NoCall
    /\ hist = NoHist

(* --------------------------------------------------------- initialization *)

\* A failed expect(): the process aborts.
Abort(what) ==
    /\ pc' = "aborted"
    /\ failure' = what

\* init_window (main.rs:71-81): glium::Display::new(..).expect(..).
CreateDisplay ==
    /\ pc = "create_display"
    /\ \E ok \in BOOLEAN :
         IF ok THEN pc' = "get_inner_size" /\ failure' = failure
               ELSE Abort("window")
    /\ UNCHANGED <<ui, ids, renderer, image_map, control, queue, produced,
                   delivered, idle, last, hist>>

\* App::new (main.rs:36-40): get_inner_size().expect(..).
GetInnerSize ==
    /\ pc = "get_inner_size"
    /\ \E ok \in BOOLEAN :
         IF ok THEN pc' = "build_ui" /\ failure' = failure
               ELSE Abort("window_size")
    /\ UNCHANGED <<ui, ids, renderer, image_map, control, queue, produced,
                   delivered, idle, last, hist>>

\* App::new (main.rs:43): UiBuilder::new(..).build().
BuildUi ==
    /\ pc = "build_ui"
    /\ ui' = UiNew
    /\ pc' = "new_renderer"
    /\ UNCHANGED <<failure, ids, renderer, image_map, control, queue,
                   produced, delivered, idle, last, hist>>

\* App::new (main.rs:44-46): Renderer::new(&window).expect(..), then the
\* empty image map.
NewRenderer ==
    /\ pc = "new_renderer"
    /\ \E ok \in BOOLEAN :
         IF ok THEN /\ pc' = "new_ids"
                    /\ failure' = failure
                    /\ renderer' = TRUE
               ELSE /\ Abort("renderer")
                    /\ renderer' = renderer
    /\ image_map' = {}
    /\ UNCHANGED <<ui, ids, control, queue, produced, delivered, idle, last,
                   hist>>

\* App::new (main.rs:48-56): Ids::new(ui.widget_id_generator()).
NewIds ==
    /\ pc = "new_ids"
    /\ LET r == IdsNew(ui)
       IN  /\ ids' = r.ids
           /\ ui' = r.ui
           /\ hist' = [hist EXCEPT !.ids_at_new = r.ids,
                                   !.nodes_at_new = r.ui.nodes]
    /\ pc' = "load_font"
    /\ UNCHANGED <<failure, renderer, image_map, control, queue, produced,
                   delivered, idle, last>>

\* A mutant of LoadFont: the loop is entered without the font inserted.
LoadFont_NoInsert ==
    /\ pc = "load_font"
    /\ \E ok \in BOOLEAN :
         IF ok THEN /\ pc' = "running"
                    /\ failure' = failure
                    /\ control' = NewControl
                    /\ hist' = [hist EXCEPT !.entered = TRUE]
               ELSE /\ Abort("font")
                    /\ UNCHANGED <<control, hist>>
    /\ UNCHANGED <<ui, ids, renderer, image_map, queue, produced, delivered,
                   idle, last>>

\* init_window (main.rs:86) with load_font (main.rs:60-67): the font is
\* parsed (expect) and inserted; main then builds the EventLoop and enters
\* run_loop (main.rs:94-96).
LoadFont ==
    /\ pc = "load_font"
    /\ \E ok \in BOOLEAN :
         IF ok THEN /\ pc' = "running"
                    /\ failure' = failure
                    /\ ui' = [ui EXCEPT !.fonts = @ + 1]
                    /\ control' = NewControl
                    /\ hist' = [hist EXCEPT !.entered = TRUE]
               ELSE /\ Abort("font")
                    /\ UNCHANGED <<ui, control, hist>>
    /\ UNCHANGED <<ids, renderer, image_map, queue, produced, delivered,
                   idle, last>>

(* --------------------------------------------------------------- the loop *)

\* The windowing system produces a platform event.
PlatformProduce ==
    /\ pc = "running"
    /\ Len(produced) < MaxEvents
    /\ \E e \in EventKinds :
         /\ queue' = Append(queue, e)
         /\ produced' = Append(produced, e)
    /\ UNCHANGED <<pc, failure, ui, ids, renderer, image_map, control,
                   delivered, idle, last, hist>>

\* The closure's invocations counted, and those after an exit signal or a
\* failure.
Counted(h) ==
    [h EXCEPT !.dispatched = @ + 1,
              !.after_exit = IF h.exit_seen THEN @ + 1 ELSE @,
              !.after_failure = IF failure # "none" THEN @ + 1 ELSE @]

\* One iteration of run_loop delivering the next platform event: the closure
\* runs to completion, then the glue reads the control handle.
DispatchPlatform ==
    /\ pc = "running"
    /\ queue # <<>>
    /\ LET k == NextPlatformEvent(queue)
           e == queue[k]
           r == OnGlutin(ui, control, e)
           changed == r.ingested \/ r.needs_redraw
       IN  /\ queue' = Without(queue, k)
           /\ delivered' = Append(delivered, e)
           /\ ui' = r.ui
           /\ control' = r.control
           /\ pc' = LoopAfter(r.control)
           /\ last' = [NoCall EXCEPT !.ev = e, !.cause = "platform",
                          !.needs_update = r.needs_update, !.exit = r.exit,
                          !.needs_redraw = r.needs_redraw,
                          !.ingested = r.ingested, !.fonts = ui.fonts,
                          !.ui_same = (r.ui = ui),
                          !.control_same = (r.control = control)]
           /\ hist' = [Counted(hist) EXCEPT
                          !.exit_seen = @ \/ e \in {"Escape", "Closed"},
                          !.req_updates = 0,
                          !.requests = IF r.needs_update > 0 THEN @ + 1 ELSE @,
                          !.platform_calls = r.needs_update,
                          !.force_pending = @ \/ e \in {"Refresh", "Resized"},
                          !.force_from_rest =
                              IF e \in {"Refresh", "Resized"}
                              THEN ~HasChanged(ui) /\ ui.widgets # {}
                              ELSE @,
                          !.quiet_run = IF changed THEN 0 ELSE @,
                          !.owed =
                              @ \/ e \in {"Key", "Refresh", "Resized", "Awakened"}]
    /\ UNCHANGED <<failure, ids, renderer, image_map, produced, idle>>

\* One iteration of run_loop delivering UpdateUi: the closure runs to
\* completion (or panics in the frame), then the glue reads the handle.
UpdateUiStep(cause, c) ==
    \E outcome \in FrameOutcomes :
        LET r == OnUpdateUi(ui, ids, c, outcome)
        IN  /\ ui' = r.ui
            /\ control' = r.control
            /\ failure' = r.failure
            /\ pc' = IF r.failure # "none" THEN "aborted"
                     ELSE LoopAfter(r.control)
            /\ last' = [NoCall EXCEPT !.ev = "UpdateUi", !.cause = cause,
                           !.needs_update =
                               IF r.control.should_update_ui
                                  /\ ~c.should_update_ui THEN 1 ELSE 0,
                           !.exit = r.control.should_exit /\ ~c.should_exit,
                           !.primitives = r.primitives, !.gpu = r.gpu,
                           !.used = r.used, !.quiet_run = hist.quiet_run,
                           !.after_force = hist.force_pending,
                           !.from_rest = hist.force_from_rest,
                           !.fault = IF r.gpu # <<>> THEN outcome ELSE "ok",
                           !.fonts = ui.fonts,
                           !.ui_same = (r.ui = ui),
                           !.control_same = (r.control = c)]
            /\ hist' = [Counted(hist) EXCEPT
                           !.req_updates =
                               IF cause = "requested" THEN @ + 1 ELSE @,
                           !.req_delivered =
                               IF cause = "requested" THEN @ + 1 ELSE @,
                           !.force_pending = FALSE,
                           !.force_from_rest = FALSE,
                           !.quiet_run =
                               IF @ < SAFE_REDRAW_COUNT + 1 THEN @ + 1 ELSE @,
                           !.owed = FALSE]

\* UpdateUi delivered because needs_update() was called.
DispatchUpdate ==
    /\ pc = "running"
    /\ control.should_update_ui
    /\ UpdateUiStep("requested", ClearUpdate(control))
    /\ UNCHANGED <<ids, renderer, image_map, queue, produced, delivered, idle>>

\* UpdateUi delivered by the glue's timer when the loop is idle.
IdleUpdate ==
    /\ pc = "running"
    /\ ~control.should_update_ui
    /\ queue = <<>>
    /\ idle < MaxIdle
    /\ idle' = idle + 1
    /\ UpdateUiStep("idle", control)
    /\ UNCHANGED <<ids, renderer, image_map, queue, produced, delivered>>

Next ==
    \/ CreateDisplay
    \/ GetInnerSize
    \/ BuildUi
    \/ NewRenderer
    \/ NewIds
    \/ LoadFont
    \/ PlatformProduce
    \/ DispatchPlatform
    \/ DispatchUpdate
    \/ IdleUpdate

Spec == Init /\ [][Next]_vars

\* run_loop keeps iterating: a standing update request is served.
FairSpec == Spec /\ WF_vars(DispatchUpdate)

TypeOK ==
    /\ pc \in {"create_display", "get_inner_size", "build_ui", "new_renderer",
               "new_ids", "load_font", "running", "returned", "aborted"}
    /\ failure \in {"none", "window", "window_size", "renderer", "font",
                    "draw", "present"}
    /\ ui.redraw_count \in 0..SAFE_REDRAW_COUNT
    /\ control.should_update_ui \in BOOLEAN
    /\ control.should_exit \in BOOLEAN
    /\ Len(produced) <= MaxEvents
    /\ idle \in 0..MaxIdle

(* ----------------------------------------------------------------- claims *)

InitFailures == {"window", "window_size", "renderer", "font"}

\* C1: once an Escape key event or a Closed event has been dispatched, the
\* closure has called exit(), run_loop has returned with that invocation the
\* last one, and no event (platform or UpdateUi) was dispatched after it.
ExitDeterminism ==
    hist.exit_seen =>
        /\ last.cause = "platform"
        /\ last.ev \in {"Escape", "Closed"}
        /\ last.exit
        /\ control.should_exit
        /\ pc = "returned"
        /\ hist.after_exit = 0

\* C1 witness: a Closed event was dispatched while another platform event
\* was still pending, which is then never delivered.
ExitDeterminismWitness ==
    /\ hist.exit_seen
    /\ last.ev = "Closed"
    /\ queue # <<>>
    /\ hist.dispatched >= 2

\* C2: run_loop has returned exactly when exit() has been called, exit() is
\* called only in the invocation for a platform event and never in one for
\* UpdateUi, and the loop returns in no other way.
TerminalCondition ==
    /\ (pc = "returned") <=> control.should_exit
    /\ last.ev = "UpdateUi" => ~last.exit
    /\ pc = "returned" => last.cause = "platform" /\ last.exit

\* C2 witness: the loop has returned after UpdateUi events were handled.
TerminalConditionWitness ==
    /\ pc = "returned"
    /\ control.should_exit
    /\ idle >= 1
    /\ hist.req_delivered >= 1

\* C3: the UpdateUi handled next after a Resized or Refresh event gets
\* primitives from draw_if_changed and submits a frame.
ForcedRedraw ==
    (last.ev = "UpdateUi" /\ last.after_force) =>
        (last.primitives /\ last.gpu # <<>>)

\* C3 witness: the Resized or Refresh event came when the widget tree was
\* built and the redraw counter had run out, and the next UpdateUi drew.
ForcedRedrawWitness ==
    /\ last.ev = "UpdateUi"
    /\ last.after_force
    /\ last.from_rest
    /\ last.primitives

\* C4 as claimed: the second of two successive UpdateUi handlings with no
\* state change between them gets no primitives and submits nothing.
RedrawGatingSecondFrame ==
    (last.ev = "UpdateUi" /\ last.quiet_run >= 1) =>
        (~last.primitives /\ last.gpu = <<>>)

\* C4 as amended: an UpdateUi handled after SAFE_REDRAW_COUNT or more
\* successive UpdateUi handlings with no state change between them gets no
\* primitives from draw_if_changed and submits nothing to the GPU.
RedrawGating ==
    (last.ev = "UpdateUi" /\ last.quiet_run >= SAFE_REDRAW_COUNT) =>
        (~last.primitives /\ last.gpu = <<>>)

\* C4 witness: an UpdateUi handled after SAFE_REDRAW_COUNT others with no
\* state change in between, which got no primitives.
RedrawGatingWitness ==
    /\ last.ev = "UpdateUi"
    /\ last.quiet_run >= SAFE_REDRAW_COUNT
    /\ ~last.primitives
    /\ pc = "running"

\* C5: at most one UpdateUi answering needs_update() is delivered between
\* two platform events, however often needs_update() was called.
UpdateCoalescing == hist.req_updates <= 1

\* C5 witness: the last platform event's invocation called needs_update()
\* twice, one UpdateUi answered it and no request is left.
UpdateCoalescingWitness ==
    /\ hist.platform_calls >= 2
    /\ hist.req_updates = 1
    /\ last.ev = "UpdateUi"
    /\ ~control.should_update_ui
    /\ pc = "running"

\* s is an initial part of t.
IsPrefix(s, t) ==
    /\ Len(s) <= Len(t)
    /\ \A j \in 1..Len(s) : s[j] = t[j]

\* C6: the platform events delivered are, in order, the first ones
\* produced, and every UpdateUi answering a request follows a platform
\* event whose invocation called needs_update().
EventOrdering ==
    /\ IsPrefix(delivered, produced)
    /\ hist.req_delivered <= hist.requests

\* C6 witness: two different platform events were delivered and an UpdateUi
\* answered a request.
EventOrderingWitness ==
    /\ Len(delivered) >= 2
    /\ delivered[1] # delivered[2]
    /\ hist.req_delivered >= 1

\* C7: after a platform event that asks for an update and no exit (an
\* input, Resized, Refresh or Awakened event), an UpdateUi is delivered
\* unless the loop ends first.
UpdateLiveness == hist.owed ~> (~hist.owed \/ pc # "running")

\* C7 witness: an UpdateUi answering the request of a key event.
UpdateLivenessWitness ==
    /\ last.ev = "UpdateUi"
    /\ last.cause = "requested"
    /\ delivered # <<>>
    /\ delivered[Len(delivered)] = "Key"

FatalErrorPropagation ==
    /\ last.fault # "ok" => (pc = "aborted" /\ failure # "none")
    /\ failure # "none" => (pc = "aborted" /\ hist.after_failure = 0)
    /\ failure \in InitFailures => (~hist.entered /\ hist.dispatched = 0)
    /\ pc = "aborted" => failure # "none"

\* C9 witness: a frame failed to present after earlier invocations.
FatalErrorPropagationWitness ==
    /\ failure = "present"
    /\ pc = "aborted"
    /\ hist.dispatched >= 2

\* C10 as claimed: the closure calls needs_redraw() for Refresh and Resized
\* events and for no other platform event.
RedrawSignalsRefreshResizedOnly ==
    last.cause = "platform" =>
        (last.needs_redraw <=> last.ev \in {"Refresh", "Resized"})

\* C10 as amended: the closure looks for three signals: it calls exit() for
\* Escape and Closed, and needs_redraw() for Refresh, Resized and Awakened,
\* and for no other platform event.
RedrawSignals ==
    last.cause = "platform" =>
        /\ last.exit <=> last.ev \in {"Escape", "Closed"}
        /\ last.needs_redraw <=> last.ev \in {"Refresh", "Resized", "Awakened"}

\* C10 witness: an Awakened event marked the Ui for redraw and asked for an
\* update.
RedrawSignalsWitness ==
    /\ last.ev = "Awakened"
    /\ last.needs_redraw
    /\ ui.redraw_count = SAFE_REDRAW_COUNT
    /\ control.should_update_ui

\* C11 as claimed: a platform event that translates is fed to the Ui and
\* needs_update() is called; one that does not translate and is neither
\* Refresh, Resized nor an exit signal leaves the Ui and the control handle
\* as they were.
EventTranslationOthersUntouched ==
    last.cause = "platform" =>
        /\ ConvertEvent(last.ev) # "None" =>
               (last.ingested /\ last.needs_update >= 1)
        /\ (ConvertEvent(last.ev) = "None"
            /\ last.ev \notin {"Refresh", "Resized", "Escape", "Closed"}) =>
               (last.ui_same /\ last.control_same)

\* C11 as amended: a platform event that translates is fed to the Ui
\* (queued as input until the next create_ui) and needs_update() is called,
\* leaving the update request set; one that does not translate and is
\* neither Refresh, Resized, Awakened nor an exit signal leaves the Ui, its
\* redraw counter and the control handle as they were.
EventTranslation ==
    last.cause = "platform" =>
        /\ ConvertEvent(last.ev) # "None" =>
               /\ last.ingested
               /\ ui.pending_input
               /\ last.needs_update >= 1
               /\ control.should_update_ui
        /\ (ConvertEvent(last.ev) = "None"
            /\ last.ev \notin {"Refresh", "Resized", "Awakened", "Escape",
                               "Closed"}) =>
               /\ last.ui_same
               /\ last.control_same
               /\ ~last.ingested
               /\ last.needs_update = 0

\* C11 witness: a key event was fed to the Ui of a built widget tree whose
\* redraw counter had run out, and an update is requested.
EventTranslationWitness ==
    /\ last.ev = "Key"
    /\ last.ingested
    /\ ui.pending_input
    /\ control.should_update_ui
    /\ ui.widgets # {}
    /\ ~HasChanged(ui)

\* The frame's calls, in order, as far as the invocation got.
FrameCalls == {<<"acquire", "fill", "draw">>,
               <<"acquire", "fill", "draw", "finish">>}

\* C12 as claimed: a frame is submitted exactly in an UpdateUi invocation
\* whose draw_if_changed, called after create_ui, returned primitives; a
\* platform event submits nothing; every acquired target is finished in the
\* same invocation.
RenderGatingAlwaysFinished ==
    /\ last.gpu # <<>> <=> (last.ev = "UpdateUi" /\ last.primitives)
    /\ last.cause = "platform" => last.gpu = <<>>
    /\ last.gpu # <<>> => last.gpu[Len(last.gpu)] = "finish"

\* C12 as amended: as claimed, except that the acquired target is finished
\* in the same invocation when renderer.draw() succeeds; when it fails the
\* invocation panics with the target acquired and not finished.
RenderGating ==
    /\ last.gpu # <<>> <=> (last.ev = "UpdateUi" /\ last.primitives)
    /\ last.cause = "platform" => last.gpu = <<>>
    /\ last.gpu # <<>> =>
           /\ last.gpu \in FrameCalls
           /\ last.used = {ids.root, ids.label}
           /\ last.fault # "draw_err" => last.gpu[Len(last.gpu)] = "finish"
           /\ last.fault = "draw_err" =>
                  (last.gpu[Len(last.gpu)] = "draw" /\ pc = "aborted")

\* C12 witness: a Resized or Refresh event, which submitted nothing, came
\* when the redraw counter had run out; the UpdateUi after it got primitives
\* and submitted a frame that it finished.
RenderGatingWitness ==
    /\ last.ev = "UpdateUi"
    /\ last.from_rest
    /\ last.primitives
    /\ last.gpu = <<"acquire", "fill", "draw", "finish">>
    /\ pc = "running"

\* C13: after an invocation that called needs_update() and then exit() (an
\* Escape key event, which is also fed to the Ui), the loop has returned
\* with the update request still standing and no UpdateUi delivered.
ExitBeforePendingUpdate ==
    (hist.exit_seen /\ delivered # <<>>
     /\ delivered[Len(delivered)] = "Escape") =>
        /\ last.ev = "Escape"
        /\ last.needs_update >= 1
        /\ last.exit
        /\ control.should_update_ui
        /\ pc = "returned"
        /\ hist.after_exit = 0

\* C13 witness: the Escape event came after an UpdateUi had answered an
\* earlier request, and its own request is left unanswered.
ExitBeforePendingUpdateWitness ==
    /\ last.ev = "Escape"
    /\ last.needs_update >= 1
    /\ last.exit
    /\ pc = "returned"
    /\ control.should_update_ui
    /\ hist.req_delivered >= 1

\* C14: an UpdateUi invocation calls neither needs_update() nor exit() and
\* leaves the control handle as it got it, so no request stands after it,
\* and a standing request always comes from a platform event's invocation
\* that no UpdateUi has answered yet.
NoSelfSustainingRedraw ==
    /\ last.ev = "UpdateUi" =>
           /\ last.needs_update = 0
           /\ ~last.exit
           /\ last.control_same
           /\ ~control.should_update_ui
           /\ ~control.should_exit
    /\ control.should_update_ui => hist.requests > hist.req_delivered

\* C14 witness: an UpdateUi answered a request, drew a frame, and the loop
\* runs on with no request standing.
NoSelfSustainingRedrawWitness ==
    /\ last.ev = "UpdateUi"
    /\ last.cause = "requested"
    /\ last.primitives
    /\ ~control.should_update_ui
    /\ pc = "running"
    /\ hist.req_delivered >= 2

\* C15: nothing is dispatched before run_loop is entered, and it is entered
\* with the Ui built, the renderer built, the image map empty, both ids
\* allocated and the font inserted; every invocation of the closure, and so
\* every create_ui, sees the font and the allocated ids.
InitializationOrdering ==
    /\ hist.dispatched > 0 => hist.entered
    /\ last.ev # "none" => hist.entered
    /\ pc \in {"running", "returned"} => hist.entered
    /\ hist.entered =>
           /\ ui.nodes >= hist.nodes_at_new
           /\ hist.nodes_at_new >= 3
           /\ renderer
           /\ image_map = {}
           /\ ids.root >= 1
           /\ ids.label >= 1
           /\ ui.fonts = 1
    /\ last.ev # "none" => last.fonts = 1
    /\ last.ev = "UpdateUi" => (0 \notin last.used /\ last.used # {})

\* C15 witness: the first event dispatched is an UpdateUi, which builds the
\* first frame with the font and both ids in place.
InitializationOrderingWitness ==
    /\ hist.dispatched = 1
    /\ last.ev = "UpdateUi"
    /\ last.fonts = 1
    /\ last.used = {ids.root, ids.label}
    /\ last.primitives

====
